---- MODULE Spec2Model ----
(***************************************************************************)
(* The plugin marketplace pipeline of uwp-plugins: the index builder       *)
(* (scripts/build-index.js), the validation script                         *)
(* (scripts/validate-plugins.js) and its stricter variant, run over a      *)
(* plugins directory.                                                      *)
(*                                                                         *)
(* Strings that the code inspects (names, ids, versions, paths, ...) are   *)
(* tuples of one-character strings, so that regular expressions, lengths,  *)
(* concatenation and collation are computed.  A JSON value is a record     *)
(* [t |-> type, v |-> payload]; for a number the payload is its decimal    *)
(* text, which is what String(n) yields.                                   *)
(***************************************************************************)
EXTENDS Integers, Sequences, FiniteSets, TLC

\* ------------------------------------------------------------------ bounds
MaxEntries == 3
MaxRuns == 2

\* ------------------------------------------------------------------- State
VARIABLES
  entries,       \* the entries of the plugins directory, in enumeration order
  rootExists,    \* whether the plugins directory exists
  clock,         \* the time: modification times and generated_at are read from it
  artifact,      \* plugins.json on disk
  prog,          \* the program of the current (or last) process
  isStrict,      \* whether the process was started with --strict
  pc,            \* where the process is: "idle", "scan", "written", "done"
  todo,          \* the directory listing the process iterates over (indexes of entries)
  idx,           \* the position of the loop in todo
  plugins,       \* buildIndex: the entries of the valid plugins
  errors,        \* buildIndex: the plugins that failed validation
  wrote,         \* buildIndex: whether this run has written plugins.json
  validCount,    \* main: the number of plugins without errors
  totalPlugins,  \* main: the number of plugins validated
  hasErrors,     \* main: whether a plugin had errors
  outcomes,      \* main: the reported result of each plugin, in order
  exitCode,      \* the exit status of the process, -1 while it runs
  runs,          \* the number of builds started
  changed,       \* whether the directory changed since the last process started
  prev           \* the previous build's result, when the directory is unchanged since

fsVars == << entries, rootExists, clock, artifact >>
procVars == << prog, isStrict, pc, todo, idx, exitCode >>
buildVars == << plugins, errors, wrote, runs, changed, prev >>
mainVars == << validCount, totalPlugins, hasErrors, outcomes >>
vars == << fsVars, procVars, buildVars, mainVars >>

\* ----------------------------------------------------------------- strings
LowerChars == <<"a","b","c","d","e","f","g","h","i","j","k","l","m","n","o","p","q","r","s","t","u","v","w","x","y","z">>
UpperChars == <<"A","B","C","D","E","F","G","H","I","J","K","L","M","N","O","P","Q","R","S","T","U","V","W","X","Y","Z">>
DigitChars == <<"0","1","2","3","4","5","6","7","8","9">>

Pos(chars, c) == IF \E i \in 1..Len(chars) : chars[i] = c
                 THEN CHOOSE i \in 1..Len(chars) : chars[i] = c
                 ELSE 0

IsLower(c) == Pos(LowerChars, c) # 0
IsUpper(c) == Pos(UpperChars, c) # 0
IsDigit(c) == Pos(DigitChars, c) # 0

StartsWith(s, p) == Len(s) >= Len(p) /\ SubSeq(s, 1, Len(p)) = p

\* ------------------------------------------------------------- JSON values
Undefined == [t |-> "undefined", v |-> <<>>]
Null == [t |-> "null", v |-> <<>>]
Str(s) == [t |-> "string", v |-> s]
Num(digits) == [t |-> "number", v |-> digits]
Arr(elems) == [t |-> "array", v |-> elems]
Obj(fields) == [t |-> "object", v |-> fields]

\* JavaScript truthiness: undefined, null, "" and 0 are falsy.
Truthy(x) ==
  CASE x.t = "undefined" -> FALSE
    [] x.t = "null" -> FALSE
    [] x.t = "string" -> x.v # <<>>
    [] x.t = "number" -> x.v # <<"0">>
    [] OTHER -> TRUE

\* A fallback that was left out: the value as the manifest has it.
OrElse_noDefault(a, b) == a

\* a || b
OrElse(a, b) == IF Truthy(a) THEN a ELSE b

\* String(x), as RegExp.prototype.test and localeCompare apply it.
RECURSIVE StringOf(_)
RECURSIVE JoinFrom(_, _)
JoinFrom(elems, i) ==
  IF i > Len(elems) THEN <<>>
  ELSE (IF i > 1 THEN <<",">> ELSE <<>>)
       \o (IF elems[i].t \in {"null", "undefined"} THEN <<>> ELSE StringOf(elems[i]))
       \o JoinFrom(elems, i + 1)
StringOf(x) ==
  CASE x.t = "string" -> x.v
    [] x.t = "number" -> x.v
    [] x.t = "null" -> <<"n","u","l","l">>
    [] x.t = "undefined" -> <<"u","n","d","e","f","i","n","e","d">>
    [] x.t = "array" -> JoinFrom(x.v, 1)
    [] OTHER -> <<"[","o","b","j","e","c","t"," ","O","b","j","e","c","t","]">>

\* manifest[field]: a property of a parsed JSON value.  Only an object has
\* the manifest's fields; a number, a string or an array yields undefined.
Field(manifest, f) ==
  IF manifest.t = "object" /\ f \in DOMAIN manifest.v THEN manifest.v[f] ELSE Undefined

\* x.length: defined for strings and arrays only.
HasLength(x) == x.t \in {"string", "array"}
Length(x) == Len(x.v)

\* ------------------------------------------------------- String comparison
\* a.localeCompare(b) under the default (ICU root) collation, for strings of
\* ASCII letters and digits: first the letters compared without regard to
\* case (digits before letters, a proper prefix first); strings equal up to
\* case are then ordered by the first case difference, lower case first.
PrimaryKey(c) ==
  CASE IsDigit(c) -> Pos(DigitChars, c)
    [] IsLower(c) -> 10 + Pos(LowerChars, c)
    [] IsUpper(c) -> 10 + Pos(UpperChars, c)
    [] OTHER -> 0
TertiaryKey(c) == IF IsUpper(c) THEN 1 ELSE 0

FirstDiff(ka, kb) ==
  LET n == IF Len(ka) < Len(kb) THEN Len(ka) ELSE Len(kb)
      D == {i \in 1..n : ka[i] # kb[i]}
  IN IF D = {} THEN 0 ELSE CHOOSE i \in D : \A j \in D : i <= j

LexCompare(ka, kb) ==
  LET d == FirstDiff(ka, kb)
  IN IF d # 0 THEN (IF ka[d] < kb[d] THEN -1 ELSE 1)
     ELSE IF Len(ka) < Len(kb) THEN -1
     ELSE IF Len(ka) > Len(kb) THEN 1
     ELSE 0

PrimaryKeys(s) == [i \in 1..Len(s) |-> PrimaryKey(s[i])]
TertiaryKeys(s) == [i \in 1..Len(s) |-> TertiaryKey(s[i])]

localeCompare(a, b) ==
  LET p == LexCompare(PrimaryKeys(a), PrimaryKeys(b))
  IN IF p # 0 THEN p ELSE LexCompare(TertiaryKeys(a), TertiaryKeys(b))

\* ------------------------------------------------------ Regular expressions
\* The index just after the longest run of digits that starts at index i.
RECURSIVE DigitsEnd(_, _)
DigitsEnd(s, i) == IF i <= Len(s) /\ IsDigit(s[i]) THEN DigitsEnd(s, i + 1) ELSE i

\* \d+\.\d+\.\d+ anchored at the start: the index just after the match, or 0.
SemverCoreEnd(s) ==
  LET a == DigitsEnd(s, 1)
      b == DigitsEnd(s, a + 1)
      c == DigitsEnd(s, b + 1)
  IN IF /\ a > 1 /\ a <= Len(s) /\ s[a] = "."
        /\ b > a + 1 /\ b <= Len(s) /\ s[b] = "."
        /\ c > b + 1
     THEN c ELSE 0

\* /^\d+\.\d+\.\d+/
MatchesVersionPrefix(s) == SemverCoreEnd(s) # 0

\* /^\d+\.\d+\.\d+(-[a-z0-9.]+)?$/
MatchesVersionFull(s) ==
  LET c == SemverCoreEnd(s)
  IN /\ c # 0
     /\ \/ c = Len(s) + 1
        \/ /\ c < Len(s)
           /\ s[c] = "-"
           /\ \A i \in (c + 1)..Len(s) : IsLower(s[i]) \/ IsDigit(s[i]) \/ s[i] = "."

\* /^[a-z0-9-]+$/
MatchesIdFormat(s) ==
  /\ Len(s) >= 1
  /\ \A i \in 1..Len(s) : IsLower(s[i]) \/ IsDigit(s[i]) \/ s[i] = "-"

\* ------------------------------------------------------- Program constants
\* A category list of the build without the category fun.
VALID_CATEGORIES_noFun ==
  << <<"s","e","c","u","r","i","t","y">>, <<"i","n","t","e","g","r","a","t","i","o","n">>, <<"m","o","n","i","t","o","r","i","n","g">>, <<"m","a","n","a","g","e","m","e","n","t">>, <<"u","t","i","l","i","t","i","e","s">>,
     <<"a","p","p","e","a","r","a","n","c","e">> >>

VALID_CATEGORIES ==
  << <<"s","e","c","u","r","i","t","y">>, <<"i","n","t","e","g","r","a","t","i","o","n">>, <<"m","o","n","i","t","o","r","i","n","g">>, <<"m","a","n","a","g","e","m","e","n","t">>, <<"u","t","i","l","i","t","i","e","s">>,
     <<"a","p","p","e","a","r","a","n","c","e">>, <<"f","u","n">> >>

VALID_CATEGORIES_script ==
  << <<"s","e","c","u","r","i","t","y">>, <<"i","n","t","e","g","r","a","t","i","o","n">>, <<"m","o","n","i","t","o","r","i","n","g">>, <<"m","a","n","a","g","e","m","e","n","t">>, <<"u","t","i","l","i","t","i","e","s">>,
     <<"a","p","p","e","a","r","a","n","c","e">>, <<"f","u","n">> >>

VALID_CATEGORIES_variant ==
  << <<"s","e","c","u","r","i","t","y">>, <<"i","n","t","e","g","r","a","t","i","o","n">>, <<"m","o","n","i","t","o","r","i","n","g">>, <<"m","a","n","a","g","e","m","e","n","t">>, <<"u","t","i","l","i","t","i","e","s">>,
     <<"a","p","p","e","a","r","a","n","c","e">> >>

VALID_HOOKS_variant ==
  << <<"o","n","_","u","s","e","r","_","c","o","n","n","e","c","t">>, <<"o","n","_","u","s","e","r","_","d","i","s","c","o","n","n","e","c","t">>, <<"o","n","_","u","s","e","r","_","n","i","c","k","_","c","h","a","n","g","e">>,
     <<"o","n","_","u","s","e","r","_","q","u","i","t">>, <<"o","n","_","c","h","a","n","n","e","l","_","j","o","i","n">>, <<"o","n","_","c","h","a","n","n","e","l","_","p","a","r","t">>,
     <<"o","n","_","c","h","a","n","n","e","l","_","m","e","s","s","a","g","e">>, <<"o","n","_","c","h","a","n","n","e","l","_","m","o","d","e">>, <<"o","n","_","s","e","r","v","e","r","_","l","i","n","k">>,
     <<"o","n","_","s","e","r","v","e","r","_","s","p","l","i","t">>, <<"o","n","_","r","e","h","a","s","h">>, <<"o","n","_","o","p","e","r","_","u","p">>, <<"o","n","_","b","a","n","_","a","d","d">>,
     <<"o","n","_","b","a","n","_","r","e","m","o","v","e">>, <<"o","n","_","p","a","n","e","l","_","s","t","a","r","t","u","p">>, <<"o","n","_","a","p","i","_","r","e","q","u","e","s","t">>, <<"o","n","_","p","a","g","e","_","l","o","a","d">> >>

VALID_HOOKS_script ==
  VALID_HOOKS_variant
    \o << <<"O","n","S","t","a","r","t","u","p">>, <<"O","n","S","h","u","t","d","o","w","n">>, <<"O","n","U","s","e","r","L","i","s","t","R","e","q","u","e","s","t">>, <<"O","n","C","h","a","n","n","e","l","L","i","s","t","R","e","q","u","e","s","t">> >>

\* Array.prototype.includes: only a string can equal an element of these lists.
Includes(list, x) == x.t = "string" /\ \E i \in 1..Len(list) : list[i] = x.v

ManifestFile == <<"p","l","u","g","i","n",".","j","s","o","n">>
ReadmeFile == <<"R","E","A","D","M","E",".","m","d">>
LicenseFile == <<"L","I","C","E","N","S","E">>
IconFile == <<"a","s","s","e","t","s","/","i","c","o","n",".","p","n","g">>
AssetsPrefix == <<"a","s","s","e","t","s","/">>
HttpsPrefix == <<"h","t","t","p","s",":","/","/">>

\* fs.existsSync(path.join(pluginDir, rel)) for a relative path without
\* "." or ".." segments.
Exists(dir, rel) == rel \in dir.files

\* ------------------------------------------------------ Validation results
Err(code, field, text) == [code |-> code, field |-> field, text |-> text]
When(cond, msgs) == IF cond THEN msgs ELSE <<>>

\* One "Missing required field" error per falsy field, in the order of the list.
MissingFields(manifest, required) ==
  LET absent == SelectSeq(required, LAMBDA f : ~Truthy(Field(manifest, f)))
  IN [i \in 1..Len(absent) |-> Err("MissingField", absent[i], <<>>)]

Required == << "id", "name", "version", "author", "description" >>
Required_variant == Required \o << "category", "license", "entry_point" >>

\* --------------------------------------------------- scripts/build-index.js
\* The parsed manifest, or null when plugin.json is absent or does not parse.
readPluginManifest(dir) ==
  IF ~Exists(dir, ManifestFile) THEN Null
  ELSE IF ~dir.parses THEN Null
  ELSE dir.manifest

\* A validation that does not compare the id with the directory name.
validateManifest_anyId(manifest, pluginId) ==
  LET id == Field(manifest, "id")
      category == Field(manifest, "category")
      version == Field(manifest, "version")
  IN MissingFields(manifest, Required)
     \o When(Truthy(category) /\ ~Includes(VALID_CATEGORIES, category),
             << Err("InvalidCategory", "category", StringOf(category)) >>)
     \o When(Truthy(version) /\ ~MatchesVersionPrefix(StringOf(version)),
             << Err("InvalidVersion", "version", StringOf(version)) >>)
     \o When(Truthy(id) /\ ~MatchesIdFormat(StringOf(id)),
             << Err("InvalidIdFormat", "id", StringOf(id)) >>)

validateManifest(manifest, pluginId) ==
  LET id == Field(manifest, "id")
      category == Field(manifest, "category")
      version == Field(manifest, "version")
  IN MissingFields(manifest, Required)
     \o When(Truthy(id) /\ id # Str(pluginId),
             << Err("IdMismatch", "id", StringOf(id)) >>)
     \o When(Truthy(category) /\ ~Includes(VALID_CATEGORIES, category),
             << Err("InvalidCategory", "category", StringOf(category)) >>)
     \o When(Truthy(version) /\ ~MatchesVersionPrefix(StringOf(version)),
             << Err("InvalidVersion", "version", StringOf(version)) >>)
     \o When(Truthy(id) /\ ~MatchesIdFormat(StringOf(id)),
             << Err("InvalidIdFormat", "id", StringOf(id)) >>)

\* A build that stamps entries with the time of the run instead of the file's.
getPluginStats_now(dir) == [last_updated |-> clock]

getPluginStats(dir) == [last_updated |-> dir.mtime]
hasReadme(dir) == Exists(dir, ReadmeFile)
hasIcon(dir) == Exists(dir, IconFile)

\* An entry whose min_panel_version is read from the version field.
pluginEntry_panelFromVersion(dir, manifest) ==
  [ id |-> Field(manifest, "id"),
    name |-> Field(manifest, "name"),
    version |-> Field(manifest, "version"),
    author |-> Field(manifest, "author"),
    description |-> Field(manifest, "description"),
    category |-> OrElse(Field(manifest, "category"), Str(<<"u","t","i","l","i","t","i","e","s">>)),
    license |-> OrElse(Field(manifest, "license"), Str(<<"M","I","T">>)),
    tags |-> OrElse(Field(manifest, "tags"), Arr(<<>>)),
    repository |-> OrElse(Field(manifest, "repository"),
                          OrElse(Field(manifest, "homepage"), Null)),
    homepage |-> OrElse(Field(manifest, "homepage"), Null),
    min_panel_version |-> OrElse(Field(manifest, "version"), Str(<<"2",".","0",".","0">>)),
    hooks |-> OrElse(Field(manifest, "hooks"), Arr(<<>>)),
    nav_items |-> OrElse(Field(manifest, "nav_items"), Arr(<<>>)),
    dashboard_cards |-> OrElse(Field(manifest, "dashboard_cards"), Arr(<<>>)),
    frontend_scripts |-> OrElse(Field(manifest, "frontend_scripts"), Arr(<<>>)),
    settings_schema |-> OrElse(Field(manifest, "settings_schema"), Null),
    has_readme |-> hasReadme(dir),
    has_icon |-> hasIcon(dir),
    last_updated |-> getPluginStats(dir).last_updated,
    downloads |-> 0,
    rating |-> 0,
    rating_count |-> 0 ]

\* The index entry of a plugin that passed validation.
pluginEntry(dir, manifest) ==
  [ id |-> Field(manifest, "id"),
    name |-> Field(manifest, "name"),
    version |-> Field(manifest, "version"),
    author |-> Field(manifest, "author"),
    description |-> Field(manifest, "description"),
    category |-> OrElse(Field(manifest, "category"), Str(<<"u","t","i","l","i","t","i","e","s">>)),
    license |-> OrElse(Field(manifest, "license"), Str(<<"M","I","T">>)),
    tags |-> OrElse(Field(manifest, "tags"), Arr(<<>>)),
    repository |-> OrElse(Field(manifest, "repository"),
                          OrElse(Field(manifest, "homepage"), Null)),
    homepage |-> OrElse(Field(manifest, "homepage"), Null),
    min_panel_version |-> OrElse(Field(manifest, "min_panel_version"), Str(<<"2",".","0",".","0">>)),
    hooks |-> OrElse(Field(manifest, "hooks"), Arr(<<>>)),
    nav_items |-> OrElse(Field(manifest, "nav_items"), Arr(<<>>)),
    dashboard_cards |-> OrElse(Field(manifest, "dashboard_cards"), Arr(<<>>)),
    frontend_scripts |-> OrElse(Field(manifest, "frontend_scripts"), Arr(<<>>)),
    settings_schema |-> OrElse(Field(manifest, "settings_schema"), Null),
    has_readme |-> hasReadme(dir),
    has_icon |-> hasIcon(dir),
    last_updated |-> getPluginStats(dir).last_updated,
    downloads |-> 0,
    rating |-> 0,
    rating_count |-> 0 ]

\* plugins.sort((a, b) => a.name.localeCompare(b.name)).
\* The comparator calls a method of a.name, so it throws a TypeError when
\* a.name is not a string; b.name is converted with String().  Node's sort
\* (V8: run detection, then binary insertion) passes every element but the
\* first as a, each at least once, and never the first.
sortThrows(list) == \E i \in 2..Len(list) : list[i].name.t # "string"

compareNames(a, b) == localeCompare(StringOf(a.name), StringOf(b.name))

\* Stable insertion of e into the sorted sequence: after every element that
\* does not compare greater than e.
InsertSorted(sorted, e) ==
  LET k == Cardinality({i \in 1..Len(sorted) : compareNames(sorted[i], e) <= 0})
  IN SubSeq(sorted, 1, k) \o << e >> \o SubSeq(sorted, k + 1, Len(sorted))

RECURSIVE sortFrom(_, _, _)
sortFrom(list, i, sorted) ==
  IF i > Len(list) THEN sorted
  ELSE sortFrom(list, i + 1, InsertSorted(sorted, list[i]))

\* A build that leaves the entries in scan order.
sortByName_unsorted(list) == list

sortByName(list) == sortFrom(list, 1, <<>>)

categoryNames ==
  (<<"s","e","c","u","r","i","t","y">> :> <<"S","e","c","u","r","i","t","y">>) @@ (<<"i","n","t","e","g","r","a","t","i","o","n">> :> <<"I","n","t","e","g","r","a","t","i","o","n","s">>)
  @@ (<<"m","o","n","i","t","o","r","i","n","g">> :> <<"M","o","n","i","t","o","r","i","n","g">>) @@ (<<"m","a","n","a","g","e","m","e","n","t">> :> <<"M","a","n","a","g","e","m","e","n","t">>)
  @@ (<<"u","t","i","l","i","t","i","e","s">> :> <<"U","t","i","l","i","t","i","e","s">>) @@ (<<"a","p","p","e","a","r","a","n","c","e">> :> <<"A","p","p","e","a","r","a","n","c","e">>)
  @@ (<<"f","u","n">> :> <<"F","u","n">>)

categoryDescriptions ==
  (<<"s","e","c","u","r","i","t","y">> :> <<"S","e","c","u","r","i","t","y","-","r","e","l","a","t","e","d"," ","f","e","a","t","u","r","e","s"," ","a","n","d"," ","t","o","o","l","s">>)
  @@ (<<"i","n","t","e","g","r","a","t","i","o","n">> :> <<"T","h","i","r","d","-","p","a","r","t","y"," ","s","e","r","v","i","c","e"," ","i","n","t","e","g","r","a","t","i","o","n","s">>)
  @@ (<<"m","o","n","i","t","o","r","i","n","g">> :> <<"M","o","n","i","t","o","r","i","n","g"," ","a","n","d"," ","a","l","e","r","t","i","n","g"," ","t","o","o","l","s">>)
  @@ (<<"m","a","n","a","g","e","m","e","n","t">> :> <<"S","e","r","v","e","r"," ","a","n","d"," ","u","s","e","r"," ","m","a","n","a","g","e","m","e","n","t">>)
  @@ (<<"u","t","i","l","i","t","i","e","s">> :> <<"G","e","n","e","r","a","l"," ","u","t","i","l","i","t","y"," ","p","l","u","g","i","n","s">>)
  @@ (<<"a","p","p","e","a","r","a","n","c","e">> :> <<"V","i","s","u","a","l"," ","c","u","s","t","o","m","i","z","a","t","i","o","n","s"," ","a","n","d"," ","t","h","e","m","e","s">>)
  @@ (<<"f","u","n">> :> <<"F","u","n"," ","a","n","d"," ","e","n","t","e","r","t","a","i","n","m","e","n","t"," ","f","e","a","t","u","r","e","s">>)

\* VALID_CATEGORIES.map(id => ({id, name: names[id] || id, description: descriptions[id] || ''}))
categories ==
  [ i \in 1..Len(VALID_CATEGORIES) |->
      LET id == VALID_CATEGORIES[i]
      IN [ id |-> id,
           name |-> IF id \in DOMAIN categoryNames THEN categoryNames[id] ELSE id,
           description |-> IF id \in DOMAIN categoryDescriptions
                           THEN categoryDescriptions[id] ELSE <<>> ] ]

\* ---------------------------------------------- scripts/validate-plugins.js
Result(errs, warns) == [threw |-> FALSE, errors |-> errs, warnings |-> warns]
Threw == [threw |-> TRUE, errors |-> <<>>, warnings |-> <<>>]

\* path.join(pluginDir, x) throws a TypeError unless x is a string.
JoinThrows(x) == x.t # "string"

\* The "not found" errors of the frontend_scripts loop, in list order.
ScriptErrors(dir, scripts) ==
  LET missing == SelectSeq(scripts, LAMBDA s : ~Exists(dir, AssetsPrefix \o s.v))
  IN [i \in 1..Len(missing) |-> Err("ScriptNotFound", "frontend_scripts", missing[i].v)]

\* One warning per hook outside the list, in list order.
HookWarnings(hooks, valid) ==
  LET unknown == SelectSeq(hooks, LAMBDA h : ~Includes(valid, h))
  IN [i \in 1..Len(unknown) |-> Err("UnknownHook", "hooks", StringOf(unknown[i]))]

validatePlugin(dir, pluginId) ==
  IF ~Exists(dir, ManifestFile)
  THEN Result(<< Err("MissingManifest", "", <<>>) >>, <<>>)
  ELSE IF ~dir.parses
  THEN Result(<< Err("InvalidManifestSyntax", "", <<>>) >>, <<>>)
  ELSE
    LET manifest == dir.manifest
        id == Field(manifest, "id")
        version == Field(manifest, "version")
        category == Field(manifest, "category")
        description == Field(manifest, "description")
        entry_point == Field(manifest, "entry_point")
        frontend_scripts == Field(manifest, "frontend_scripts")
        hooks == Field(manifest, "hooks")
        tags == Field(manifest, "tags")
        errs ==
          MissingFields(manifest, Required)
          \o When(Truthy(id),
               When(id # Str(pluginId), << Err("IdMismatch", "id", StringOf(id)) >>)
               \o When(~MatchesIdFormat(StringOf(id)),
                       << Err("InvalidIdFormat", "id", StringOf(id)) >>)
               \o When(HasLength(id) /\ (Length(id) < 2 \/ Length(id) > 50),
                       << Err("InvalidIdLength", "id", StringOf(id)) >>))
          \o When(Truthy(version) /\ ~MatchesVersionFull(StringOf(version)),
                  << Err("InvalidVersion", "version", StringOf(version)) >>)
          \o When(Truthy(category) /\ ~Includes(VALID_CATEGORIES_script, category),
                  << Err("InvalidCategory", "category", StringOf(category)) >>)
          \o When(Truthy(description),
               When(HasLength(description) /\ Length(description) < 10,
                    << Err("DescriptionTooShort", "description", <<>>) >>)
               \o When(HasLength(description) /\ Length(description) > 500,
                       << Err("DescriptionTooLong", "description", <<>>) >>))
          \o When(Truthy(entry_point) /\ ~JoinThrows(entry_point)
                    /\ ~Exists(dir, entry_point.v),
                  << Err("EntryPointNotFound", "entry_point", StringOf(entry_point)) >>)
          \o When(frontend_scripts.t = "array"
                    /\ \A i \in 1..Len(frontend_scripts.v) : ~JoinThrows(frontend_scripts.v[i]),
                  ScriptErrors(dir, frontend_scripts.v))
          \o When(Truthy(tags) /\ tags.t # "array",
                  << Err("TagsNotArray", "tags", <<>>) >>)
        warns ==
          When(hooks.t = "array", HookWarnings(hooks.v, VALID_HOOKS_script))
          \o When(tags.t = "array" /\ Len(tags.v) > 10,
                  << Err("TooManyTags", "tags", <<>>) >>)
    IN IF \/ manifest.t = "null"
          \/ Truthy(entry_point) /\ JoinThrows(entry_point)
          \/ /\ frontend_scripts.t = "array"
             /\ \E i \in 1..Len(frontend_scripts.v) : JoinThrows(frontend_scripts.v[i])
       THEN Threw
       ELSE Result(errs, warns)

\* ------------------------------------ the stricter variant of the validator
\* A validator whose early returns carry the strict-mode file warnings: the
\* README and LICENSE checks done before the manifest is read.
StrictFileWarnings(dir, strict) ==
  When(strict,
    When(~Exists(dir, ReadmeFile), << Err("MissingReadme", "", <<>>) >>)
    \o When(~Exists(dir, LicenseFile), << Err("MissingLicense", "", <<>>) >>))

validatePlugin_variant_warnsFirst(dir, pluginId, strict) ==
  IF ~Exists(dir, ManifestFile)
  THEN Result(<< Err("MissingManifest", "", <<>>) >>, StrictFileWarnings(dir, strict))
  ELSE IF ~dir.parses
  THEN Result(<< Err("InvalidManifestSyntax", "", <<>>) >>, StrictFileWarnings(dir, strict))
  ELSE
    LET manifest == dir.manifest
        id == Field(manifest, "id")
        version == Field(manifest, "version")
        category == Field(manifest, "category")
        description == Field(manifest, "description")
        entry_point == Field(manifest, "entry_point")
        hooks == Field(manifest, "hooks")
        tags == Field(manifest, "tags")
        repository == Field(manifest, "repository")
        errs ==
          MissingFields(manifest, Required_variant)
          \o When(Truthy(id),
               When(id # Str(pluginId), << Err("IdMismatch", "id", StringOf(id)) >>)
               \o When(~MatchesIdFormat(StringOf(id)),
                       << Err("InvalidIdFormat", "id", StringOf(id)) >>)
               \o When(HasLength(id) /\ (Length(id) < 3 \/ Length(id) > 50),
                       << Err("InvalidIdLength", "id", StringOf(id)) >>))
          \o When(Truthy(version) /\ ~MatchesVersionFull(StringOf(version)),
                  << Err("InvalidVersion", "version", StringOf(version)) >>)
          \o When(Truthy(category) /\ ~Includes(VALID_CATEGORIES_variant, category),
                  << Err("InvalidCategory", "category", StringOf(category)) >>)
          \o When(Truthy(description),
               When(HasLength(description) /\ Length(description) < 10,
                    << Err("DescriptionTooShort", "description", <<>>) >>)
               \o When(HasLength(description) /\ Length(description) > 200,
                       << Err("DescriptionTooLong", "description", <<>>) >>))
          \o When(Truthy(entry_point) /\ ~JoinThrows(entry_point)
                    /\ ~Exists(dir, entry_point.v),
                  << Err("EntryPointNotFound", "entry_point", StringOf(entry_point)) >>)
          \o When(Truthy(tags) /\ tags.t # "array",
                  << Err("TagsNotArray", "tags", <<>>) >>)
          \o When(tags.t = "array" /\ Len(tags.v) > 10,
                  << Err("TooManyTags", "tags", <<>>) >>)
        warns ==
          When(hooks.t = "array", HookWarnings(hooks.v, VALID_HOOKS_variant))
          \o When(strict,
               When(~Exists(dir, ReadmeFile), << Err("MissingReadme", "", <<>>) >>)
               \o When(~Exists(dir, LicenseFile), << Err("MissingLicense", "", <<>>) >>)
               \o When(Truthy(repository) /\ repository.t = "string"
                         /\ ~StartsWith(repository.v, HttpsPrefix),
                       << Err("RepositoryNotHttps", "repository", <<>>) >>))
    IN IF \/ manifest.t = "null"
          \/ Truthy(entry_point) /\ JoinThrows(entry_point)
          \/ strict /\ Truthy(repository) /\ repository.t # "string"
       THEN Threw
       ELSE Result(errs, warns)

validatePlugin_variant(dir, pluginId, strict) ==
  IF ~Exists(dir, ManifestFile)
  THEN Result(<< Err("MissingManifest", "", <<>>) >>, <<>>)
  ELSE IF ~dir.parses
  THEN Result(<< Err("InvalidManifestSyntax", "", <<>>) >>, <<>>)
  ELSE
    LET manifest == dir.manifest
        id == Field(manifest, "id")
        version == Field(manifest, "version")
        category == Field(manifest, "category")
        description == Field(manifest, "description")
        entry_point == Field(manifest, "entry_point")
        hooks == Field(manifest, "hooks")
        tags == Field(manifest, "tags")
        repository == Field(manifest, "repository")
        errs ==
          MissingFields(manifest, Required_variant)
          \o When(Truthy(id),
               When(id # Str(pluginId), << Err("IdMismatch", "id", StringOf(id)) >>)
               \o When(~MatchesIdFormat(StringOf(id)),
                       << Err("InvalidIdFormat", "id", StringOf(id)) >>)
               \o When(HasLength(id) /\ (Length(id) < 3 \/ Length(id) > 50),
                       << Err("InvalidIdLength", "id", StringOf(id)) >>))
          \o When(Truthy(version) /\ ~MatchesVersionFull(StringOf(version)),
                  << Err("InvalidVersion", "version", StringOf(version)) >>)
          \o When(Truthy(category) /\ ~Includes(VALID_CATEGORIES_variant, category),
                  << Err("InvalidCategory", "category", StringOf(category)) >>)
          \o When(Truthy(description),
               When(HasLength(description) /\ Length(description) < 10,
                    << Err("DescriptionTooShort", "description", <<>>) >>)
               \o When(HasLength(description) /\ Length(description) > 200,
                       << Err("DescriptionTooLong", "description", <<>>) >>))
          \o When(Truthy(entry_point) /\ ~JoinThrows(entry_point)
                    /\ ~Exists(dir, entry_point.v),
                  << Err("EntryPointNotFound", "entry_point", StringOf(entry_point)) >>)
          \o When(Truthy(tags) /\ tags.t # "array",
                  << Err("TagsNotArray", "tags", <<>>) >>)
          \o When(tags.t = "array" /\ Len(tags.v) > 10,
                  << Err("TooManyTags", "tags", <<>>) >>)
        warns ==
          When(hooks.t = "array", HookWarnings(hooks.v, VALID_HOOKS_variant))
          \o When(strict,
               When(~Exists(dir, ReadmeFile), << Err("MissingReadme", "", <<>>) >>)
               \o When(~Exists(dir, LicenseFile), << Err("MissingLicense", "", <<>>) >>)
               \o When(Truthy(repository) /\ repository.t = "string"
                         /\ ~StartsWith(repository.v, HttpsPrefix),
                       << Err("RepositoryNotHttps", "repository", <<>>) >>))
    IN IF \/ manifest.t = "null"
          \/ Truthy(entry_point) /\ JoinThrows(entry_point)
          \/ strict /\ Truthy(repository) /\ repository.t # "string"
       THEN Threw
       ELSE Result(errs, warns)

\* --------------------------------------------------- The plugins directory
\* What plugin authors put under plugins/: each catalogue entry is one
\* directory entry with its files, the content of its plugin.json and the
\* modification time of that file.
Dir(name, mtime, files, parses, manifest) ==
  [ name |-> name, isDir |-> TRUE, files |-> files, parses |-> parses,
    manifest |-> manifest, mtime |-> mtime ]

Base(id, name) ==
  [ id |-> Str(id), name |-> name, version |-> Str(<<"1",".","0",".","0">>),
    author |-> Str(<<"d","e","v">>), description |-> Str(<<"A"," ","d","e","m","o"," ","p","l","u","g","i","n">>) ]

Full(id, name) ==
  Base(id, name)
  @@ [ category |-> Str(<<"u","t","i","l","i","t","i","e","s">>), license |-> Str(<<"M","I","T">>),
       entry_point |-> Str(<<"m","a","i","n",".","g","o">>) ]

Catalogue ==
  { \* complete plugins, valid under every validator
    Dir(<<"a","l","p","h","a">>, 11, {ManifestFile, ReadmeFile, LicenseFile, IconFile, <<"m","a","i","n",".","g","o">>}, TRUE,
        Obj(Full(<<"a","l","p","h","a">>, Str(<<"a","l","p","h","a">>)))),
    Dir(<<"w","a","r","n","h","o","o","k">>, 12, {ManifestFile, ReadmeFile, LicenseFile, <<"m","a","i","n",".","g","o">>}, TRUE,
        Obj(Full(<<"w","a","r","n","h","o","o","k">>, Str(<<"h","o","o","k","y">>)) @@ [hooks |-> Arr(<< Str(<<"o","n","_","f","o","o">>) >>)])),
    \* frontend-only plugins with the five essential fields
    Dir(<<"b","e","t","a">>, 13, {ManifestFile}, TRUE, Obj(Base(<<"b","e","t","a">>, Str(<<"B","e","t","a">>)))),
    Dir(<<"b","e","t","a","2">>, 14, {ManifestFile, ReadmeFile}, TRUE, Obj(Base(<<"b","e","t","a","2">>, Str(<<"b","e","t","a">>)))),
    Dir(<<"a","l","p","h","a","2">>, 15, {ManifestFile}, TRUE, Obj(Base(<<"a","l","p","h","a","2">>, Str(<<"a","l","p","h","a">>)))),
    \* a display name that is a JSON number
    Dir(<<"n","u","m","n","a","m","e">>, 16, {ManifestFile}, TRUE, Obj(Base(<<"n","u","m","n","a","m","e">>, Num(<<"5">>)))),
    \* an entry_point naming a file that is not there
    Dir(<<"n","o","e","n","t","r","y">>, 17, {ManifestFile}, TRUE,
        Obj(Base(<<"n","o","e","n","t","r","y">>, Str(<<"g","a","m","m","a">>)) @@ [entry_point |-> Str(<<"m","a","i","n",".","g","o">>)])),
    \* a version without a patch number
    Dir(<<"o","l","d","v","e","r">>, 18, {ManifestFile}, TRUE,
        Obj([Base(<<"o","l","d","v","e","r">>, Str(<<"d","e","l","t","a">>)) EXCEPT !.version = Str(<<"1",".","0">>)])),
    \* no plugin.json, a plugin.json that does not parse, a plugin.json holding null
    Dir(<<"n","o","m","a","n","i","f","e","s","t">>, 19, {ReadmeFile}, FALSE, Null),
    Dir(<<"b","a","d","j","s","o","n">>, 20, {ManifestFile}, FALSE, Null),
    Dir(<<"j","s","o","n","n","u","l","l">>, 21, {ManifestFile}, TRUE, Null),
    \* a hidden directory and a plain file
    Dir(<<".","g","i","t">>, 22, {}, FALSE, Null),
    [ name |-> <<"n","o","t","e","s",".","t","x","t">>, isDir |-> FALSE, files |-> {}, parses |-> FALSE,
      manifest |-> Null, mtime |-> 24 ] }

\* ----------------------------------------------------------- Initial state
NoFile == [exists |-> FALSE]
NoPrev == [valid |-> FALSE]

Init ==
  /\ entries = <<>>
  /\ rootExists \in BOOLEAN
  /\ clock = 100    \* later than every modification time of the catalogue
  /\ artifact = NoFile
  /\ prog = "none"
  /\ isStrict = FALSE
  /\ pc = "idle"
  /\ todo = <<>>
  /\ idx = 1
  /\ plugins = <<>>
  /\ errors = <<>>
  /\ wrote = FALSE
  /\ validCount = 0
  /\ totalPlugins = 0
  /\ hasErrors = FALSE
  /\ outcomes = <<>>
  /\ exitCode = -1
  /\ runs = 0
  /\ changed = FALSE
  /\ prev = NoPrev

Names == {entries[i].name : i \in 1..Len(entries)}

\* A plugin author adds an entry to the plugins directory while no process runs.
AddEntry(c) ==
  /\ pc \in {"idle", "done"}
  /\ runs < MaxRuns
  /\ Len(entries) < MaxEntries
  /\ c.name \notin Names
  /\ entries' = Append(entries, c)
  /\ rootExists' = TRUE
  /\ changed' = TRUE
  /\ UNCHANGED << clock, artifact, procVars, plugins, errors, wrote, runs, prev, mainVars >>

\* entry.isDirectory() and !entry.name.startsWith('.')
IsPluginDir(e) == e.isDir /\ ~StartsWith(e.name, <<".">>)

\* --------------------------------------------------------------- buildIndex
\* The start of buildIndex up to the directory listing.
buildIndex_start ==
  /\ pc \in {"idle", "done"}
  /\ runs < MaxRuns
  /\ prog' = "build"
  /\ isStrict' = FALSE
  /\ rootExists' = TRUE
  /\ plugins' = <<>>
  /\ errors' = <<>>
  /\ todo' = [i \in 1..Len(entries) |-> i]
  /\ idx' = 1
  /\ pc' = "scan"
  /\ exitCode' = -1
  /\ wrote' = FALSE
  /\ runs' = runs + 1
  /\ clock' = clock + 1
  /\ prev' = IF prog = "build" /\ pc = "done" /\ ~changed
             THEN [valid |-> TRUE, wrote |-> wrote, artifact |-> artifact, exit |-> exitCode]
             ELSE NoPrev
  /\ changed' = FALSE
  /\ UNCHANGED << entries, artifact, mainVars >>

\* A loop body without the `continue` after a failed validation.
scanEntry_keepsInvalid(entry, ps, es) ==
  LET manifest == readPluginManifest(entry)
      validationErrors == validateManifest(manifest, entry.name)
  IN IF ~IsPluginDir(entry) \/ ~Truthy(manifest)
     THEN [plugins |-> ps, errors |-> es]
     ELSE [ plugins |-> Append(ps, pluginEntry(entry, manifest)),
            errors |-> IF Len(validationErrors) > 0
                       THEN Append(es, [plugin |-> entry.name, errors |-> validationErrors])
                       ELSE es ]

\* The body of the loop for one directory entry: the lists after it.
scanEntry(entry, ps, es) ==
  LET manifest == readPluginManifest(entry)
      validationErrors == validateManifest(manifest, entry.name)
  IN IF ~IsPluginDir(entry) \/ ~Truthy(manifest)
     THEN [plugins |-> ps, errors |-> es]
     ELSE IF Len(validationErrors) > 0
     THEN [ plugins |-> ps,
            errors |-> Append(es, [plugin |-> entry.name, errors |-> validationErrors]) ]
     ELSE [plugins |-> Append(ps, pluginEntry(entry, manifest)), errors |-> es]

\* One iteration of the loop over the directory listing.
buildIndex_scan ==
  /\ prog = "build" /\ pc = "scan" /\ idx <= Len(todo)
  /\ LET after == scanEntry(entries[todo[idx]], plugins, errors)
     IN /\ plugins' = after.plugins
        /\ errors' = after.errors
  /\ idx' = idx + 1
  /\ UNCHANGED << fsVars, prog, isStrict, pc, todo, exitCode, wrote, runs, changed, prev, mainVars >>

\* An index that counts the entries of the listing instead of the plugins.
index_countsListing(sorted) ==
  [ version |-> 2,
    generated_at |-> clock,
    plugin_count |-> Len(todo),
    categories |-> categories,
    plugins |-> sorted ]

\* The index document of a run that has the sorted plugins at hand.
index(sorted) ==
  [ version |-> 2,
    generated_at |-> clock,
    plugin_count |-> Len(sorted),
    categories |-> categories,
    plugins |-> sorted ]

\* After the loop: sort, assemble and write plugins.json.  A comparator that
\* throws ends the process with an uncaught exception before the write.
buildIndex_write ==
  /\ prog = "build" /\ pc = "scan" /\ idx > Len(todo)
  /\ IF sortThrows(plugins)
     THEN /\ pc' = "done"
          /\ exitCode' = 1    \* Node's exit status after an uncaught exception
          /\ UNCHANGED << plugins, artifact, wrote >>
     ELSE /\ plugins' = sortByName(plugins)
          /\ artifact' = [exists |-> TRUE, index |-> index(plugins')]
          /\ wrote' = TRUE
          /\ pc' = "written"
          /\ UNCHANGED exitCode
  /\ UNCHANGED << entries, rootExists, clock, prog, isStrict, todo, idx, errors, runs,
                  changed, prev, mainVars >>

\* The end of buildIndex: process.exit(1) when a plugin had validation errors.
buildIndex_exit ==
  /\ prog = "build" /\ pc = "written"
  /\ exitCode' = IF Len(errors) > 0 THEN 1 ELSE 0
  /\ pc' = "done"
  /\ UNCHANGED << fsVars, prog, isStrict, todo, idx, buildVars, mainVars >>

\* ------------------------------------- main of scripts/validate-plugins.js
Outcome(pluginId, r) == [plugin |-> pluginId, errors |-> r.errors, warnings |-> r.warnings]

\* The start of main up to the filtered directory listing.
main_start(strict) ==
  /\ pc \in {"idle", "done"}
  /\ prog' = "validate"
  /\ isStrict' = strict
  /\ validCount' = 0
  /\ hasErrors' = FALSE
  /\ outcomes' = <<>>
  /\ idx' = 1
  /\ changed' = FALSE
  /\ IF ~rootExists
     THEN /\ exitCode' = 1
          /\ pc' = "done"
          /\ todo' = <<>>
          /\ totalPlugins' = 0
     ELSE /\ todo' = SelectSeq([i \in 1..Len(entries) |-> i],
                              LAMBDA i : IsPluginDir(entries[i]))
          /\ totalPlugins' = Len(todo')
          /\ exitCode' = -1
          /\ pc' = "scan"
  /\ UNCHANGED << fsVars, plugins, errors, wrote, runs, prev >>

\* One iteration of the loop over the plugins.  An exception thrown by
\* validatePlugin is not caught and ends the process.
main_step ==
  /\ prog = "validate" /\ pc = "scan" /\ idx <= Len(todo)
  /\ LET pluginId == entries[todo[idx]].name
         r == validatePlugin(entries[todo[idx]], pluginId)
     IN IF r.threw
        THEN /\ pc' = "done"
             /\ exitCode' = 1    \* Node's exit status after an uncaught exception
             /\ UNCHANGED << idx, validCount, hasErrors, outcomes >>
        ELSE /\ validCount' = IF Len(r.errors) = 0 THEN validCount + 1 ELSE validCount
             /\ hasErrors' = (hasErrors \/ Len(r.errors) # 0)
             /\ outcomes' = Append(outcomes, Outcome(pluginId, r))
             /\ idx' = idx + 1
             /\ UNCHANGED << pc, exitCode >>
  /\ UNCHANGED << fsVars, prog, isStrict, todo, totalPlugins, buildVars >>

\* The end of main: process.exit(1) only if (hasErrors && isStrict).
main_exit ==
  /\ prog = "validate" /\ pc = "scan" /\ idx > Len(todo)
  /\ exitCode' = IF hasErrors /\ isStrict THEN 1 ELSE 0
  /\ pc' = "done"
  /\ UNCHANGED << fsVars, prog, isStrict, todo, idx, buildVars, mainVars >>

\* ------------------------------------------------- main of the variant
main_variant_start(strict) ==
  /\ pc \in {"idle", "done"}
  /\ prog' = "variant"
  /\ isStrict' = strict
  /\ validCount' = 0
  /\ totalPlugins' = 0
  /\ hasErrors' = FALSE
  /\ outcomes' = <<>>
  /\ idx' = 1
  /\ changed' = FALSE
  /\ IF ~rootExists
     THEN /\ exitCode' = 0
          /\ pc' = "done"
          /\ todo' = <<>>
     ELSE /\ todo' = [i \in 1..Len(entries) |-> i]
          /\ exitCode' = -1
          /\ pc' = "scan"
  /\ UNCHANGED << fsVars, plugins, errors, wrote, runs, prev >>

main_variant_step ==
  /\ prog = "variant" /\ pc = "scan" /\ idx <= Len(todo)
  /\ LET entry == entries[todo[idx]]
         r == validatePlugin_variant(entry, entry.name, isStrict)
     IN IF ~IsPluginDir(entry)
        THEN /\ idx' = idx + 1
             /\ UNCHANGED << pc, exitCode, mainVars >>
        ELSE IF r.threw
        THEN /\ totalPlugins' = totalPlugins + 1
             /\ pc' = "done"
             /\ exitCode' = 1    \* Node's exit status after an uncaught exception
             /\ UNCHANGED << idx, validCount, hasErrors, outcomes >>
        ELSE /\ totalPlugins' = totalPlugins + 1
             /\ validCount' = IF Len(r.errors) = 0 THEN validCount + 1 ELSE validCount
             /\ hasErrors' = (hasErrors \/ Len(r.errors) > 0)
             /\ outcomes' = Append(outcomes, Outcome(entry.name, r))
             /\ idx' = idx + 1
             /\ UNCHANGED << pc, exitCode >>
  /\ UNCHANGED << fsVars, prog, isStrict, todo, buildVars >>

\* The end of the variant's main: process.exit(1) if hasErrors.
main_variant_exit ==
  /\ prog = "variant" /\ pc = "scan" /\ idx > Len(todo)
  /\ exitCode' = IF hasErrors THEN 1 ELSE 0
  /\ pc' = "done"
  /\ UNCHANGED << fsVars, prog, isStrict, todo, idx, buildVars, mainVars >>

\* ---------------------------------------------------------- Specifications
\* The build, run repeatedly over a directory that authors add plugins to.
Next ==
  \/ \E c \in Catalogue : AddEntry(c)
  \/ buildIndex_start
  \/ buildIndex_scan
  \/ buildIndex_write
  \/ buildIndex_exit

Spec == Init /\ [][Next]_vars

\* The two validation entry points, with and without --strict.
NextValidate ==
  \/ \E c \in Catalogue : AddEntry(c)
  \/ \E strict \in BOOLEAN : main_start(strict)
  \/ main_step
  \/ main_exit
  \/ \E strict \in BOOLEAN : main_variant_start(strict)
  \/ main_variant_step
  \/ main_variant_exit

SpecValidate == Init /\ [][NextValidate]_vars

\* ------------------------------------------------ One plugin under every program
\* The manifests an author can write, around a complete valid one: required
\* fields left out, and one or two fields given another value.
Without(fields, removed) == [f \in DOMAIN fields \ removed |-> fields[f]]

LongId == [i \in 1..51 |-> "a"]
Description201 == [i \in 1..201 |-> "d"]
Description501 == [i \in 1..501 |-> "d"]
ElevenTags == [i \in 1..11 |-> Str(<<"t">>)]

GoodManifest == Full(<<"m","y","-","p","l","u","g","i","n">>, Str(<<"M","y"," ","P","l","u","g","i","n">>))

PluginFiles == {ManifestFile, ReadmeFile, <<"m","a","i","n",".","g","o">>, <<"a","s","s","e","t","s","/","a","p","p",".","j","s">>}

RequiredSet == {Required_variant[i] : i \in 1..Len(Required_variant)}

\* Field values other than the good manifest's, one field each.
Overrides ==
  { [id |-> Str(<<"M","y","-","P","l","u","g","i","n">>)], [id |-> Str(<<"a">>)], [id |-> Str(LongId)],
    [id |-> Num(<<"5">>)], [id |-> Str(<<>>)],
    [name |-> Num(<<"5">>)], [name |-> Str(<<>>)],
    [version |-> Str(<<"1",".","0">>)], [version |-> Str(<<"1",".","0",".","0","-","b","e","t","a",".","1">>)],
    [version |-> Str(<<"1",".","0",".","0","a","b","c">>)], [version |-> Num(<<"1">>)],
    [category |-> Str(<<"f","u","n">>)], [category |-> Str(<<"b","o","g","u","s">>)], [category |-> Str(<<>>)],
    [description |-> Str(<<"s","h","o","r","t">>)], [description |-> Str(Description201)],
    [description |-> Str(Description501)],
    [entry_point |-> Str(<<"m","i","s","s","i","n","g",".","g","o">>)], [entry_point |-> Num(<<"5">>)],
    [frontend_scripts |-> Arr(<< Str(<<"a","p","p",".","j","s">>) >>)],
    [frontend_scripts |-> Arr(<< Str(<<"g","o","n","e",".","j","s">>), Str(<<"a","p","p",".","j","s">>), Str(<<"l","o","s","t",".","j","s">>) >>)],
    [frontend_scripts |-> Arr(<< Num(<<"5">>) >>)],
    [hooks |-> Arr(<< Str(<<"o","n","_","f","o","o">>) >>)],
    [hooks |-> Arr(<< Str(<<"o","n","_","r","e","h","a","s","h">>), Str(<<"o","n","_","f","o","o">>), Str(<<"O","n","S","t","a","r","t","u","p">>), Str(<<"o","n","_","f","o","o">>) >>)],
    [hooks |-> Str(<<"o","n","_","f","o","o">>)],
    [tags |-> Arr(<< Str(<<"i","r","c">>) >>)], [tags |-> Str(<<"i","r","c">>)], [tags |-> Arr(ElevenTags)],
    [tags |-> Num(<<"0">>)],
    [license |-> Str(<<"G","P","L","-","3",".","0">>)], [license |-> Str(<<>>)],
    [repository |-> Str(<<"h","t","t","p",":","/","/","e","x","a","m","p","l","e",".","o","r","g","/","r">>)], [repository |-> Str(<<"h","t","t","p","s",":","/","/","e","x","a","m","p","l","e",".","o","r","g","/","r">>)],
    [repository |-> Num(<<"5">>)],
    [homepage |-> Str(<<"h","t","t","p","s",":","/","/","e","x","a","m","p","l","e",".","o","r","g">>)], [homepage |-> Str(<<>>)],
    [min_panel_version |-> Str(<<"1",".","5",".","0">>)],
    [settings_schema |-> Obj([depth |-> Num(<<"1">>)])], [settings_schema |-> Num(<<"0">>)],
    [nav_items |-> Arr(<< Str(<<"H","o","m","e">>) >>)],
    [dashboard_cards |-> Arr(<< Str(<<"C","a","r","d">>) >>)] }

Manifests ==
  {Obj(Without(GoodManifest, removed)) : removed \in SUBSET RequiredSet}
  \cup {Obj(o1 @@ o2 @@ GoodManifest) : o1, o2 \in Overrides}
  \cup {Obj(Without(o @@ GoodManifest, {f})) : o \in Overrides, f \in {"name", "entry_point"}}

\* The first plugin of the README: the manifest of its Step 2, in the
\* directory layout of its Step 1 (the script beside plugin.json).
FirstPluginManifest ==
  [id |-> Str(<<"m","y","-","p","l","u","g","i","n">>), name |-> Str(<<"M","y"," ","P","l","u","g","i","n">>), version |-> Str(<<"1",".","0",".","0">>),
   description |-> Str(<<"A"," ","s","h","o","r","t"," ","d","e","s","c","r","i","p","t","i","o","n"," ","o","f"," ","w","h","a","t"," ","y","o","u","r"," ","p","l","u","g","i","n"," ","d","o","e","s">>),
   author |-> Str(<<"Y","o","u","r"," ","N","a","m","e">>), license |-> Str(<<"M","I","T">>),
   homepage |-> Str(<<"h","t","t","p","s",":","/","/","g","i","t","h","u","b",".","c","o","m","/","y","o","u","r","u","s","e","r","n","a","m","e","/","m","y","-","p","l","u","g","i","n">>),
   min_panel_version |-> Str(<<"2",".","0",".","0">>),
   frontend_scripts |-> Arr(<< Str(<<"m","y","-","p","l","u","g","i","n",".","j","s">>) >>)]

FirstPluginFiles == {ManifestFile, <<"m","y","-","p","l","u","g","i","n",".","j","s">>, ReadmeFile}

FirstPlugin == Dir(<<"m","y","-","p","l","u","g","i","n">>, 11, FirstPluginFiles, TRUE, Obj(FirstPluginManifest))

\* The files beside the manifest that the strict checks look for: README.md
\* and LICENSE, each there or not.
FileLayouts ==
  { (PluginFiles \ {ReadmeFile}) \cup docs : docs \in SUBSET {ReadmeFile, LicenseFile} }

\* The plugin directories: my-plugin with each manifest; a manifest that is
\* valid JSON but not an object; the structural failures; short directory names.
Inputs ==
  {Dir(<<"m","y","-","p","l","u","g","i","n">>, 11, PluginFiles, TRUE, m) : m \in Manifests}
  \cup {Dir(<<"m","y","-","p","l","u","g","i","n">>, 11, PluginFiles, TRUE, m) :
          m \in {Null, Num(<<"5">>), Num(<<"0">>), Str(<<"t","e","x","t">>), Arr(<<>>)}}
  \cup {Dir(<<"m","y","-","p","l","u","g","i","n">>, 11, PluginFiles, FALSE, Null),
        Dir(<<"m","y","-","p","l","u","g","i","n">>, 11, PluginFiles \ {ManifestFile}, FALSE, Null),
        Dir(<<"m","y","-","p","l","u","g","i","n">>, 11, {}, FALSE, Null)}
  \cup {Dir(n, 11, PluginFiles, TRUE, Obj(Full(n, Str(<<"S","h","o","r","t">>)))) : n \in {<<"a">>, <<"a","b">>}}
  \cup {FirstPlugin}
  \cup {Dir(<<"m","y","-","p","l","u","g","i","n">>, 11, files, TRUE, Obj(o @@ GoodManifest)) :
          files \in FileLayouts, o \in Overrides}

InitManifest ==
  /\ entries \in {<< d >> : d \in Inputs}
  /\ rootExists = TRUE
  /\ clock = 100
  /\ artifact = NoFile
  /\ prog = "none"
  /\ isStrict = FALSE
  /\ pc = "idle"
  /\ todo = <<>>
  /\ idx = 1
  /\ plugins = <<>>
  /\ errors = <<>>
  /\ wrote = FALSE
  /\ validCount = 0
  /\ totalPlugins = 0
  /\ hasErrors = FALSE
  /\ outcomes = <<>>
  /\ exitCode = -1
  /\ runs = 0
  /\ changed = FALSE
  /\ prev = NoPrev

\* Each program, run over a directory that holds the one plugin.
NextManifest ==
  \/ buildIndex_start
  \/ buildIndex_scan
  \/ buildIndex_write
  \/ buildIndex_exit
  \/ \E strict \in BOOLEAN : main_start(strict)
  \/ main_step
  \/ main_exit
  \/ \E strict \in BOOLEAN : main_variant_start(strict)
  \/ main_variant_step
  \/ main_variant_exit

SpecManifest == InitManifest /\ [][NextManifest]_vars

\* ------------------------------------------- The repository between the runs
\* A plugin directory is deleted from the plugins directory while no process runs.
RemoveEntry(i) ==
  /\ pc \in {"idle", "done"}
  /\ runs < MaxRuns
  /\ i \in 1..Len(entries)
  /\ entries' = SubSeq(entries, 1, i - 1) \o SubSeq(entries, i + 1, Len(entries))
  /\ changed' = TRUE
  /\ UNCHANGED << rootExists, clock, artifact, procVars, plugins, errors, wrote, runs,
                  prev, mainVars >>

\* The build, over a plugins directory that gains and loses plugins between runs.
NextRebuild ==
  \/ \E c \in Catalogue : AddEntry(c)
  \/ \E i \in 1..MaxEntries : RemoveEntry(i)
  \/ buildIndex_start
  \/ buildIndex_scan
  \/ buildIndex_write
  \/ buildIndex_exit

SpecRebuild == Init /\ [][NextRebuild]_vars

\* Every entry point of the repository over the same plugins directory.
NextScan ==
  \/ \E c \in Catalogue : AddEntry(c)
  \/ buildIndex_start
  \/ buildIndex_scan
  \/ buildIndex_write
  \/ buildIndex_exit
  \/ \E strict \in BOOLEAN : main_start(strict)
  \/ main_step
  \/ main_exit
  \/ \E strict \in BOOLEAN : main_variant_start(strict)
  \/ main_variant_step
  \/ main_variant_exit

SpecScan == Init /\ [][NextScan]_vars

\* Plugins that contend for an id: valid ones, one whose manifest gives the
\* name of another directory as its id, and one whose directory name and id
\* have an upper-case letter.
IdCatalogue ==
  {c \in Catalogue : c.name \in {<<"a","l","p","h","a">>, <<"b","e","t","a">>, <<"b","e","t","a","2">>}}
  \cup { Dir(<<"c","o","p","y","c","a","t">>, 25, {ManifestFile}, TRUE, Obj(Base(<<"a","l","p","h","a">>, Str(<<"C","o","p","y">>)))),
         Dir(<<"L","o","u","d">>, 26, {ManifestFile}, TRUE, Obj(Base(<<"L","o","u","d">>, Str(<<"L","o","u","d">>)))) }

NextIds ==
  \/ \E c \in IdCatalogue : AddEntry(c)
  \/ buildIndex_start
  \/ buildIndex_scan
  \/ buildIndex_write
  \/ buildIndex_exit

SpecIds == Init /\ [][NextIds]_vars

\* ------------------------------------------------- Vocabulary of the claims
\* The discovered plugin directories: non-hidden directories of the listing.
PluginDirs == {i \in 1..Len(entries) : IsPluginDir(entries[i])}

ManifestParses(i) == Exists(entries[i], ManifestFile) /\ entries[i].parses
ManifestOf(i) == readPluginManifest(entries[i])
BuildErrors(i) == validateManifest(ManifestOf(i), entries[i].name)

\* The build validates a directory only when it read a (truthy) manifest.
BuildValidated(i) == Truthy(ManifestOf(i))
BuildAccepts(i) == BuildValidated(i) /\ BuildErrors(i) = <<>>
BuildRejects(i) == BuildValidated(i) /\ BuildErrors(i) # <<>>

\* A build has ended, and the directory is as that build saw it.
BuildFinished == prog = "build" /\ pc = "done" /\ ~changed

\* The current build has written plugins.json, and the directory is as it saw it.
IndexWritten == prog = "build" /\ wrote /\ ~changed
IndexPlugins == artifact.index.plugins

\* The index entries that come from directory i.
EntryOf(i) == pluginEntry(entries[i], ManifestOf(i))
EntriesFor(i) == {k \in 1..Len(IndexPlugins) : IndexPlugins[k] = EntryOf(i)}

\* The directory an index entry comes from, as a position of the listing.
ScanPosition(k) == CHOOSE i \in PluginDirs : IndexPlugins[k] = EntryOf(i)

ReportedInErrors(i) == \E k \in 1..Len(errors) : errors[k].plugin = entries[i].name

\* A validation entry point has ended over an existing plugins directory,
\* and the directory is as it saw it.
ValidatorFinished ==
  prog \in {"validate", "variant"} /\ pc = "done" /\ ~changed /\ rootExists

\* What the entry point that ran computes for directory i.
Validation(i) ==
  IF prog = "variant"
  THEN validatePlugin_variant(entries[i], entries[i].name, isStrict)
  ELSE validatePlugin(entries[i], entries[i].name)

HasErrorList(i) == ~Validation(i).threw /\ Validation(i).errors # <<>>
HasNoErrors(i) == ~Validation(i).threw /\ Validation(i).errors = <<>>
HasWarnings(i) == ~Validation(i).threw /\ Validation(i).warnings # <<>>

\* ------------------------------------------------------------------ Claims
\* C1: when every plugin.json parses, a finished build has a non-zero exit
\* status if some plugin's manifest produced a validation error, and exit
\* status 0 if no plugin's manifest produced one.
C1_BuildExitStatus ==
  (BuildFinished /\ \A i \in PluginDirs : ManifestParses(i))
  => /\ (\E i \in PluginDirs : BuildRejects(i)) => exitCode # 0
     /\ (\A i \in PluginDirs : ~BuildRejects(i)) => exitCode = 0

\* C2: in a finished build, every plugin directory whose plugin.json is
\* missing or does not parse has no index entry, is among the plugins with
\* errors, and makes the exit status non-zero.
C2_UnreadableManifestIsAnError ==
  BuildFinished =>
    \A i \in PluginDirs :
      ~ManifestParses(i) =>
        /\ wrote => EntriesFor(i) = {}
        /\ ReportedInErrors(i)
        /\ exitCode # 0

\* C3: a finished validation run (either entry point, with or without
\* --strict) has a non-zero exit status if some plugin has a non-empty error
\* list, and exit status 0 if no plugin has errors and --strict is not passed.
C3_ValidationExitStatus ==
  ValidatorFinished =>
    /\ (\E i \in PluginDirs : HasErrorList(i)) => exitCode # 0
    /\ ((\A i \in PluginDirs : HasNoErrors(i)) /\ ~isStrict) => exitCode = 0

\* C4: a finished validation run with --strict has a non-zero exit status if
\* some plugin produced a warning, also when no plugin has an error.
C4_StrictBlocksOnWarnings ==
  (ValidatorFinished /\ isStrict) =>
    ((\E i \in PluginDirs : HasWarnings(i)) => exitCode # 0)

\* C5: a written index holds exactly one entry for each plugin directory
\* whose manifest validated with zero errors, no entry for a directory whose
\* manifest produced an error, nothing else, and plugin_count is the length
\* of plugins.
C5_IndexHoldsExactlyTheValidPlugins ==
  IndexWritten =>
    /\ \A i \in PluginDirs : BuildAccepts(i) => Cardinality(EntriesFor(i)) = 1
    /\ \A i \in PluginDirs : BuildRejects(i) => EntriesFor(i) = {}
    /\ \A k \in 1..Len(IndexPlugins) :
         \E i \in PluginDirs : BuildAccepts(i) /\ IndexPlugins[k] = EntryOf(i)
    /\ artifact.index.plugin_count = Len(IndexPlugins)

\* A written index over a directory with a valid and an invalid plugin.
C5_Witness ==
  /\ IndexWritten
  /\ \E i \in PluginDirs : BuildAccepts(i)
  /\ \E i \in PluginDirs : BuildRejects(i)
  /\ Len(IndexPlugins) = 1

DanglingEntryPoint(i) ==
  LET entry_point == Field(ManifestOf(i), "entry_point")
  IN Truthy(entry_point) /\ entry_point.t = "string" /\ ~Exists(entries[i], entry_point.v)

ReportedWith(i, code) ==
  \E k \in 1..Len(errors) :
    /\ errors[k].plugin = entries[i].name
    /\ \E j \in 1..Len(errors[k].errors) : errors[k].errors[j].code = code

\* C6: in a finished build, a plugin whose entry_point names a file that is
\* not in the plugin directory has no index entry and is reported with
\* EntryPointNotFound; an otherwise valid plugin without the entry_point
\* field has an index entry.
C6_DanglingEntryPointExcluded ==
  (BuildFinished /\ wrote) =>
    \A i \in PluginDirs :
      /\ DanglingEntryPoint(i) =>
           EntriesFor(i) = {} /\ ReportedWith(i, "EntryPointNotFound")
      /\ (BuildAccepts(i) /\ ~Truthy(Field(ManifestOf(i), "entry_point"))) =>
           EntriesFor(i) # {}

\* C7: whatever the manifests hold, a build processes every discovered
\* directory and writes plugins.json with the valid plugins, and has an exit
\* status only after that.
C7_ContainmentAndPersistence ==
  /\ (prog = "build" /\ exitCode # -1) => wrote
  /\ (prog = "build" /\ pc = "done") => idx > Len(todo)
  /\ BuildFinished => \A i \in PluginDirs : BuildAccepts(i) => EntriesFor(i) # {}

NameOf(k) == StringOf(IndexPlugins[k].name)

\* Comparison without regard to letter case.
CaseInsensitiveCompare(a, b) == LexCompare(PrimaryKeys(a), PrimaryKeys(b))

\* C8, as stated: the plugins of a written index are in case-insensitive
\* order of name, and entries whose names are equal under that comparison
\* are in directory-enumeration order.
C8_SortedStableUnderCaseInsensitiveEquality ==
  IndexWritten =>
    \A k, l \in 1..Len(IndexPlugins) :
      k < l =>
        /\ CaseInsensitiveCompare(NameOf(k), NameOf(l)) <= 0
        /\ CaseInsensitiveCompare(NameOf(k), NameOf(l)) = 0 =>
             ScanPosition(k) < ScanPosition(l)

\* C8, amended: the plugins of a written index are in case-insensitive order
\* of name; entries with identical names are in directory-enumeration
\* order; entries whose names differ only in letter case are in the order of
\* the collation (localeCompare), whatever the enumeration order.
C8_SortedStableForIdenticalNames ==
  IndexWritten =>
    \A k, l \in 1..Len(IndexPlugins) :
      k < l =>
        /\ CaseInsensitiveCompare(NameOf(k), NameOf(l)) <= 0
        /\ NameOf(k) = NameOf(l) => ScanPosition(k) < ScanPosition(l)
        /\ NameOf(k) # NameOf(l) => localeCompare(NameOf(k), NameOf(l)) < 0

\* A written index "alpha", "Beta" of a directory that lists Beta's plugin first.
C8_Witness ==
  /\ IndexWritten
  /\ Len(IndexPlugins) = 2
  /\ NameOf(1) = <<"a","l","p","h","a">> /\ NameOf(2) = <<"B","e","t","a">>
  /\ ScanPosition(2) < ScanPosition(1)

WithoutTimestamp(ix) ==
  [ version |-> ix.version, plugin_count |-> ix.plugin_count,
    categories |-> ix.categories, plugins |-> ix.plugins ]

\* C9: the second of two builds over an unchanged directory ends with the
\* exit status of the first and writes the same index, generated_at aside.
C9_BuildIsIdempotent ==
  (prog = "build" /\ pc = "done" /\ prev.valid) =>
    /\ exitCode = prev.exit
    /\ wrote = prev.wrote
    /\ wrote => WithoutTimestamp(artifact.index) = WithoutTimestamp(prev.artifact.index)

\* A second build over an unchanged directory wrote an index with a plugin,
\* at a later time than the first.
C9_Witness ==
  /\ prog = "build" /\ pc = "done" /\ prev.valid /\ wrote
  /\ Len(IndexPlugins) >= 1
  /\ artifact.index.generated_at # prev.artifact.index.generated_at

\* C10: validatePlugin reports zero errors for a plugin directory exactly
\* when the build accepts it.
C10_ValidatorAndBuildAgree ==
  \A i \in PluginDirs :
    (LET r == validatePlugin(entries[i], entries[i].name)
     IN ~r.threw /\ r.errors = <<>>)
    <=> BuildAccepts(i)

\* ------------------------------------------- Vocabulary of the validator claims
\* The validation script, or its variant, has ended over the directory.
ScriptFinished == prog = "validate" /\ pc = "done" /\ ~changed /\ rootExists
VariantFinished == prog = "variant" /\ pc = "done" /\ ~changed /\ rootExists

\* The results that the main which ran recorded for directory i.
OutcomesFor(i) == {k \in 1..Len(outcomes) : outcomes[k].plugin = entries[i].name}

HasCode(errs, code) == \E k \in 1..Len(errs) : errs[k].code = code
CodesOf(errs) == [k \in 1..Len(errs) |-> errs[k].code]

\* The rules of the validation script as a table, in the order of the claim:
\* each rule with the errors it yields for the manifest of directory i.
RuleErrors(i) ==
  LET dir == entries[i]
      m == dir.manifest
      id == Field(m, "id")
      version == Field(m, "version")
      category == Field(m, "category")
      description == Field(m, "description")
      entry_point == Field(m, "entry_point")
      scripts == Field(m, "frontend_scripts")
      tags == Field(m, "tags")
      Missing(f) == When(~Truthy(Field(m, f)), << Err("MissingField", f, <<>>) >>)
      Gone(s) == s.t # "string" \/ ~Exists(dir, AssetsPrefix \o s.v)
      GoneScripts == SelectSeq(scripts.v, Gone)
  IN Missing("id") \o Missing("name") \o Missing("version") \o Missing("author")
     \o Missing("description")
     \o When(Truthy(id) /\ id # Str(dir.name), << Err("IdMismatch", "id", StringOf(id)) >>)
     \o When(Truthy(id) /\ ~MatchesIdFormat(StringOf(id)),
             << Err("InvalidIdFormat", "id", StringOf(id)) >>)
     \o When(id.t = "string" /\ id.v # <<>> /\ (Len(id.v) < 2 \/ Len(id.v) > 50),
             << Err("InvalidIdLength", "id", StringOf(id)) >>)
     \o When(Truthy(version) /\ ~MatchesVersionFull(StringOf(version)),
             << Err("InvalidVersion", "version", StringOf(version)) >>)
     \o When(Truthy(category) /\ ~Includes(VALID_CATEGORIES_script, category),
             << Err("InvalidCategory", "category", StringOf(category)) >>)
     \o When(description.t = "string" /\ description.v # <<>> /\ Len(description.v) < 10,
             << Err("DescriptionTooShort", "description", <<>>) >>)
     \o When(description.t = "string" /\ Len(description.v) > 500,
             << Err("DescriptionTooLong", "description", <<>>) >>)
     \o When(Truthy(entry_point)
               /\ (entry_point.t # "string" \/ ~Exists(dir, entry_point.v)),
             << Err("EntryPointNotFound", "entry_point", StringOf(entry_point)) >>)
     \o When(scripts.t = "array",
             [k \in 1..Len(GoneScripts) |->
                Err("ScriptNotFound", "frontend_scripts", StringOf(GoneScripts[k]))])
     \o When(Truthy(tags) /\ tags.t # "array", << Err("TagsNotArray", "tags", <<>>) >>)

\* ------------------------------------------------------------------ Claims
\* C11: for every plugin directory whose plugin.json parses, the finished
\* validation script has recorded a result whose errors are the errors of
\* every violated rule, in rule order: the missing required fields in the
\* order id, name, version, author, description, then id mismatch, id
\* format, id length, version, category, description length, entry point,
\* frontend scripts, tags.
C11_ErrorsCollectedInRuleOrder ==
  ScriptFinished =>
    \A i \in PluginDirs :
      ManifestParses(i) =>
        /\ OutcomesFor(i) # {}
        /\ \A k \in OutcomesFor(i) : outcomes[k].errors = RuleErrors(i)

\* The conditions of the three id rules for the manifest of directory i
\* (the data model: id equals the directory name, matches ^[a-z0-9-]+$, has
\* 2 to 50 characters).
ManifestId(i) == Field(entries[i].manifest, "id")
IdDiffers(i) == Truthy(ManifestId(i)) /\ ManifestId(i) # Str(entries[i].name)
IdMalformed(i) == Truthy(ManifestId(i)) /\ ~MatchesIdFormat(StringOf(ManifestId(i)))
IdLengthOutOfBounds(i) ==
  /\ ManifestId(i).t = "string" /\ ManifestId(i).v # <<>>
  /\ (Len(ManifestId(i).v) < 2 \/ Len(ManifestId(i).v) > 50)

\* C12: in the build and in the validation script, each of IdMismatch,
\* InvalidIdFormat and InvalidIdLength is reported for a plugin exactly when
\* its own condition is violated, whatever the other two do (the id
\* "My-Plugin" in my-plugin yields IdMismatch and InvalidIdFormat).
C12_IdRulesAreIndependent ==
  /\ BuildFinished =>
       \A i \in PluginDirs :
         BuildValidated(i) =>
           /\ ReportedWith(i, "IdMismatch") <=> IdDiffers(i)
           /\ ReportedWith(i, "InvalidIdFormat") <=> IdMalformed(i)
           /\ ReportedWith(i, "InvalidIdLength") <=> IdLengthOutOfBounds(i)
  /\ ScriptFinished =>
       \A i \in PluginDirs :
         \A k \in OutcomesFor(i) :
           ManifestParses(i) =>
             /\ HasCode(outcomes[k].errors, "IdMismatch") <=> IdDiffers(i)
             /\ HasCode(outcomes[k].errors, "InvalidIdFormat") <=> IdMalformed(i)
             /\ HasCode(outcomes[k].errors, "InvalidIdLength") <=> IdLengthOutOfBounds(i)

\* The version of the manifest of directory i is a string of the form
\* MAJOR.MINOR.PATCH or MAJOR.MINOR.PATCH-prerelease.
ManifestVersion(i) == Field(entries[i].manifest, "version")
VersionIsString(i) == ManifestVersion(i).t = "string" /\ ManifestVersion(i).v # <<>>
VersionWellFormed(i) == MatchesVersionFull(ManifestVersion(i).v)

\* C13: in the build and in the validation script, a version string is
\* accepted (no InvalidVersion) exactly when it has the form
\* MAJOR.MINOR.PATCH, optionally followed by -prerelease.
C13_VersionAcceptedIffSemver ==
  /\ BuildFinished =>
       \A i \in PluginDirs :
         (BuildValidated(i) /\ VersionIsString(i)) =>
           (~ReportedWith(i, "InvalidVersion") <=> VersionWellFormed(i))
  /\ ScriptFinished =>
       \A i \in PluginDirs :
         \A k \in OutcomesFor(i) :
           (ManifestParses(i) /\ VersionIsString(i)) =>
             (~HasCode(outcomes[k].errors, "InvalidVersion") <=> VersionWellFormed(i))

\* The hooks list that the program which ran knows.
KnownHooks == IF prog = "variant" THEN VALID_HOOKS_variant ELSE VALID_HOOKS_script

\* The hook names of directory i outside the known list, in list order.
UnknownHooks(i) ==
  LET hooks == Field(entries[i].manifest, "hooks")
      unknown == IF hooks.t = "array"
                 THEN SelectSeq(hooks.v, LAMBDA h : ~Includes(KnownHooks, h))
                 ELSE <<>>
  IN [k \in 1..Len(unknown) |-> StringOf(unknown[k])]

\* The UnknownHook warnings of a result, in order: the hook names they carry.
HookWarningsOf(warns) ==
  LET hookWarns == SelectSeq(warns, LAMBDA w : w.code = "UnknownHook")
  IN [k \in 1..Len(hookWarns) |-> hookWarns[k].text]

\* Directory i with the hooks field taken out of its manifest.
WithoutHooks(i) ==
  IF entries[i].manifest.t = "object"
  THEN [entries[i] EXCEPT !.manifest = Obj(Without(entries[i].manifest.v, {"hooks"}))]
  ELSE entries[i]

\* What the validator of the program that ran returns for a directory.
ValidationOf(dir) ==
  IF prog = "variant"
  THEN validatePlugin_variant(dir, dir.name, isStrict)
  ELSE validatePlugin(dir, dir.name)

\* C14: for every manifest with hook names outside the known list, a
\* finished validator has recorded a result with one UnknownHook warning per
\* such name, in list order, and the error list that the same manifest without hooks yields; a
\* plugin with zero errors and an UnknownHook warning is in the index of a
\* finished build, which exits 0.
C14_UnknownHooksOnlyWarn ==
  /\ (ScriptFinished \/ VariantFinished) =>
       \A i \in PluginDirs :
         (ManifestParses(i) /\ UnknownHooks(i) # <<>>) =>
           /\ OutcomesFor(i) # {}
           /\ \A k \in OutcomesFor(i) :
                /\ HookWarningsOf(outcomes[k].warnings) = UnknownHooks(i)
                /\ ~HasCode(outcomes[k].errors, "UnknownHook")
                /\ outcomes[k].errors = ValidationOf(WithoutHooks(i)).errors
  /\ BuildFinished =>
       \A i \in PluginDirs :
         LET r == validatePlugin(entries[i], entries[i].name)
         IN (~r.threw /\ r.errors = <<>> /\ HasCode(r.warnings, "UnknownHook")) =>
              wrote /\ EntriesFor(i) # {} /\ exitCode = 0

\* C20: no plugin directory makes a validator or the build's reader and
\* validator throw: a finished validator has recorded a result for every
\* plugin directory, and a finished build has gone through the whole listing.
C20_NeverThrowsPastBoundary ==
  /\ (ScriptFinished \/ VariantFinished) => \A i \in PluginDirs : OutcomesFor(i) # {}
  /\ BuildFinished => idx > Len(todo)

\* C15: a build creates the plugins root if it is missing, and a finished
\* build over a root without plugin directories has written an index with
\* plugin_count 0, no plugins and a non-empty categories array, and exits 0.
C15_EmptyRootGivesEmptyIndex ==
  /\ prog = "build" => rootExists
  /\ (BuildFinished /\ PluginDirs = {}) =>
       /\ wrote /\ artifact.exists
       /\ artifact.index.plugin_count = 0
       /\ artifact.index.plugins = <<>>
       /\ Len(artifact.index.categories) > 0
       /\ exitCode = 0

\* A finished build over a root that holds entries but no plugin directory.
C15_Witness ==
  /\ BuildFinished /\ wrote
  /\ entries # <<>> /\ PluginDirs = {}
  /\ artifact.index.plugin_count = 0

\* The ids of the categories array that the build assembles.
CategoryIds == {categories[k].id : k \in 1..Len(categories)}
SevenCategories ==
  << <<"s","e","c","u","r","i","t","y">>, <<"i","n","t","e","g","r","a","t","i","o","n">>, <<"m","o","n","i","t","o","r","i","n","g">>, <<"m","a","n","a","g","e","m","e","n","t">>, <<"u","t","i","l","i","t","i","e","s">>,
     <<"a","p","p","e","a","r","a","n","c","e">>, <<"f","u","n">> >>

\* The categories array of a written index is the fixed list, every entry
\* with a non-empty name and description.
IndexCategoriesFixed ==
  IndexWritten =>
    LET cats == artifact.index.categories
    IN /\ [k \in 1..Len(cats) |-> cats[k].id] = SevenCategories
       /\ \A k \in 1..Len(cats) : cats[k].name # <<>> /\ cats[k].description # <<>>

ManifestCategory(i) == Field(entries[i].manifest, "category")
HasCategoryValue(i) == Truthy(ManifestCategory(i))
CategoryIsListed(i) ==
  ManifestCategory(i).t = "string" /\ ManifestCategory(i).v \in CategoryIds

\* C16: the categories array of every written index is the fixed
\* list of seven, and the build, the validation script and its variant each
\* accept a non-empty category value (no InvalidCategory) exactly when it is
\* the id of an entry of that array.
C16_OneCategoryEnumForAll ==
  /\ IndexCategoriesFixed
  /\ BuildFinished =>
       \A i \in PluginDirs :
         (BuildValidated(i) /\ HasCategoryValue(i)) =>
           (~ReportedWith(i, "InvalidCategory") <=> CategoryIsListed(i))
  /\ (ScriptFinished \/ VariantFinished) =>
       \A i \in PluginDirs :
         \A k \in OutcomesFor(i) :
           (ManifestParses(i) /\ HasCategoryValue(i)) =>
             (~HasCode(outcomes[k].errors, "InvalidCategory") <=> CategoryIsListed(i))

\* The index entries of directory i: those that carry its name as id.
EntriesById(i) == {k \in 1..Len(IndexPlugins) : IndexPlugins[k].id = Str(entries[i].name)}

Present(i, f) == entries[i].manifest.t = "object" /\ f \in DOMAIN entries[i].manifest.v
Given(i, f) == Truthy(Field(entries[i].manifest, f))
FromManifest(i, f) == Field(entries[i].manifest, f)

\* The defaults of the assembler, field by field.
Defaults ==
  [ category |-> Str(<<"u","t","i","l","i","t","i","e","s">>), license |-> Str(<<"M","I","T">>), tags |-> Arr(<<>>),
    hooks |-> Arr(<<>>), nav_items |-> Arr(<<>>), dashboard_cards |-> Arr(<<>>),
    frontend_scripts |-> Arr(<<>>), settings_schema |-> Null, homepage |-> Null ]

\* C17, as stated: in every index entry each defaulted field is the
\* manifest's value when the manifest has the field and the default when it
\* has not; repository is the manifest's repository, else its homepage,
\* else null.
C17_DefaultsWhenAbsent ==
  IndexWritten =>
    \A i \in PluginDirs :
      \A k \in EntriesById(i) :
        /\ \A f \in DOMAIN Defaults :
             IndexPlugins[k][f] = IF Present(i, f) THEN FromManifest(i, f) ELSE Defaults[f]
        /\ IndexPlugins[k].repository =
             IF Present(i, "repository") THEN FromManifest(i, "repository")
             ELSE IF Present(i, "homepage") THEN FromManifest(i, "homepage")
             ELSE Null

\* C17, amended: in every index entry each defaulted field is the
\* manifest's value when that value is truthy, and the default when the
\* field is absent or its value is falsy (empty string, 0, null);
\* repository is the manifest's truthy repository, else its truthy
\* homepage, else null.
C17_DefaultsWhenFalsy ==
  IndexWritten =>
    \A i \in PluginDirs :
      \A k \in EntriesById(i) :
        /\ \A f \in DOMAIN Defaults :
             IndexPlugins[k][f] = IF Given(i, f) THEN FromManifest(i, f) ELSE Defaults[f]
        /\ IndexPlugins[k].repository =
             IF Given(i, "repository") THEN FromManifest(i, "repository")
             ELSE IF Given(i, "homepage") THEN FromManifest(i, "homepage")
             ELSE Null

\* An index entry whose license is the default although the manifest has
\* a license field (the empty string), and whose repository is the homepage.
C17_Witness ==
  /\ IndexWritten
  /\ \E i \in PluginDirs :
       /\ Present(i, "license") /\ ~Given(i, "license")
       /\ ~Present(i, "repository") /\ Given(i, "homepage")
       /\ \E k \in EntriesById(i) :
            /\ IndexPlugins[k].license = Str(<<"M","I","T">>)
            /\ IndexPlugins[k].repository = FromManifest(i, "homepage")

\* C18, as stated: the min_panel_version of an index entry is the
\* manifest's when the manifest has one, and null or empty when it has not.
C18_PanelVersionPassThrough ==
  IndexWritten =>
    \A i \in PluginDirs :
      \A k \in EntriesById(i) :
        IF Present(i, "min_panel_version")
        THEN IndexPlugins[k].min_panel_version = FromManifest(i, "min_panel_version")
        ELSE IndexPlugins[k].min_panel_version \in {Null, Undefined, Str(<<>>)}

\* C18, amended: the min_panel_version of an index entry is the manifest's
\* when that value is truthy, and "2.0.0" when the manifest has none.
C18_PanelVersionDefault ==
  IndexWritten =>
    \A i \in PluginDirs :
      \A k \in EntriesById(i) :
        IndexPlugins[k].min_panel_version =
          IF Given(i, "min_panel_version") THEN FromManifest(i, "min_panel_version")
          ELSE Str(<<"2",".","0",".","0">>)

\* A written entry whose manifest has no min_panel_version.
C18_Witness ==
  /\ IndexWritten
  /\ \E i \in PluginDirs :
       /\ ~Present(i, "min_panel_version")
       /\ \E k \in EntriesById(i) : IndexPlugins[k].min_panel_version = Str(<<"2",".","0",".","0">>)

\* C19: a finished validator has recorded, for every plugin directory whose
\* plugin.json is missing or does not parse, a result with exactly one
\* error, MissingManifest or InvalidManifestSyntax, and no warning, with and
\* without --strict.
C19_StructuralFailureShortCircuits ==
  (ScriptFinished \/ VariantFinished) =>
    \A i \in PluginDirs :
      ~ManifestParses(i) =>
        /\ OutcomesFor(i) # {}
        /\ \A k \in OutcomesFor(i) :
             /\ CodesOf(outcomes[k].errors) =
                  IF Exists(entries[i], ManifestFile)
                  THEN << "InvalidManifestSyntax" >> ELSE << "MissingManifest" >>
             /\ outcomes[k].warnings = <<>>

\* The variant, run with --strict, has validated a directory that has no
\* plugin.json and no README.
C19_Witness ==
  /\ VariantFinished /\ isStrict
  /\ \E i \in PluginDirs :
       /\ ~Exists(entries[i], ManifestFile) /\ ~Exists(entries[i], ReadmeFile)
       /\ \E k \in OutcomesFor(i) : Len(outcomes[k].errors) = 1

\* ------------------------------------------------- The README's first plugin
IsFirstPlugin(i) == entries[i] = FirstPlugin

\* C21: when a program of the repository has finished over the plugin
\* directory laid out as in the README's "Creating Your First Plugin", each
\* validator has recorded a result without errors for it, and the build has
\* accepted it and written it into the index.
C21_FirstPluginValidates ==
  \A i \in PluginDirs :
    IsFirstPlugin(i) =>
      /\ (ScriptFinished \/ VariantFinished) =>
           /\ OutcomesFor(i) # {}
           /\ \A k \in OutcomesFor(i) : outcomes[k].errors = <<>>
      /\ BuildFinished => wrote /\ EntriesFor(i) # {}

\* ------------------------------------------------------ Scanner enumeration
\* The names of the plugin directories, in the order of the directory listing.
PluginDirNames ==
  LET dirs == SelectSeq(entries, IsPluginDir)
  IN [k \in 1..Len(dirs) |-> dirs[k].name]

\* The plugins that the finished validator recorded a result for, in order.
OutcomeNames == [k \in 1..Len(outcomes) |-> outcomes[k].plugin]

\* The outcomes of the build for entry i: a place in the list of collected
\* plugins, or a record in the list of validation errors.
BuildOutcomes(i) ==
  Cardinality({k \in 1..Len(plugins) : plugins[k] = EntryOf(i)})
    + Cardinality({k \in 1..Len(errors) : errors[k].plugin = entries[i].name})

\* The validation errors of the build name directories in listing order.
ErrorsInListingOrder ==
  \A k, l \in 1..Len(errors) :
    k < l => \E i, j \in 1..Len(entries) :
               /\ i < j
               /\ errors[k].plugin = entries[i].name
               /\ errors[l].plugin = entries[j].name

\* C22: when an entry point has finished, every non-hidden subdirectory of
\* the plugins root has exactly one outcome, in the order of the directory
\* listing, and the other entries have none: the validators' results name
\* exactly the plugin directories in listing order and the total counts them;
\* the build has one outcome (collected plugin or error record) per plugin
\* directory, none for any other entry, and its error records in listing order.
C22_OneOutcomePerPluginDirectory ==
  /\ (ScriptFinished \/ VariantFinished) =>
       /\ OutcomeNames = PluginDirNames
       /\ totalPlugins = Len(PluginDirNames)
  /\ BuildFinished =>
       /\ \A i \in 1..Len(entries) :
            BuildOutcomes(i) = IF i \in PluginDirs THEN 1 ELSE 0
       /\ ErrorsInListingOrder

\* ------------------------------------------------------- Strict-mode checks
Count(list, code) == Cardinality({k \in 1..Len(list) : list[k].code = code})

ManifestRepository(i) == Field(entries[i].manifest, "repository")

\* The manifest of directory i gives a repository that does not start with https://.
RepositoryNotHttps(i) ==
  /\ Truthy(ManifestRepository(i))
  /\ ~(ManifestRepository(i).t = "string" /\ StartsWith(ManifestRepository(i).v, HttpsPrefix))

StrictCodes == {"MissingReadme", "MissingLicense", "RepositoryNotHttps"}

\* C23: when a validator has finished, every result it recorded for a plugin
\* whose plugin.json parses has, if --strict was passed, exactly one warning for a
\* missing README.md, one for a missing LICENSE file and one for a repository
\* that does not start with https://, each only under its condition, and none
\* of the three without --strict; none of them is reported as an error.
C23_StrictModeOnlyChecks ==
  (ScriptFinished \/ VariantFinished) =>
    \A i \in PluginDirs :
      ManifestParses(i) =>
        \A k \in OutcomesFor(i) :
          LET warns == outcomes[k].warnings
              One(cond) == IF isStrict /\ cond THEN 1 ELSE 0
          IN /\ Count(warns, "MissingReadme") = One(~Exists(entries[i], ReadmeFile))
             /\ Count(warns, "MissingLicense") = One(~Exists(entries[i], LicenseFile))
             /\ Count(warns, "RepositoryNotHttps") = One(RepositoryNotHttps(i))
             /\ \A c \in StrictCodes : Count(outcomes[k].errors, c) = 0

\* ------------------------------------------------------------ The tags rule
ManifestTags(i) == Field(entries[i].manifest, "tags")

TagsPresent(i) == ManifestTags(i) # Undefined
TagsIsSequence(i) == ManifestTags(i).t = "array"
TagsOverLimit(i) == TagsIsSequence(i) /\ Len(ManifestTags(i).v) > 10

\* C24: in every result a finished validator recorded for a plugin whose
\* plugin.json parses: tags that is present and not a sequence is reported by
\* the one error TagsNotArray; a sequence of more than 10 tags is reported by
\* one TooManyTags, a warning and no error in scripts/validate-plugins.js and
\* an error in the variant; a sequence of at most 10 tags, or no tags, is
\* reported by neither.
C24_TagsRule ==
  (ScriptFinished \/ VariantFinished) =>
    \A i \in PluginDirs :
      ManifestParses(i) =>
        \A k \in OutcomesFor(i) :
          LET errs == outcomes[k].errors
              warns == outcomes[k].warnings
              One(cond) == IF cond THEN 1 ELSE 0
          IN /\ Count(errs, "TagsNotArray") = One(TagsPresent(i) /\ ~TagsIsSequence(i))
             /\ Count(warns, "TagsNotArray") = 0
             /\ Count(warns, "TooManyTags") = One(ScriptFinished /\ TagsOverLimit(i))
             /\ Count(errs, "TooManyTags") = One(VariantFinished /\ TagsOverLimit(i))

\* ------------------------------------------------- Frontend scripts resolve
\* The script is a file name that exists under the assets directory of entry i.
ScriptResolves(i, script) ==
  script.t = "string" /\ Exists(entries[i], AssetsPrefix \o script.v)

\* The frontend_scripts of the manifest of entry i that resolve to no file.
MissingScripts(i) ==
  LET scripts == Field(entries[i].manifest, "frontend_scripts")
  IN IF scripts.t = "array"
     THEN {k \in 1..Len(scripts.v) : ~ScriptResolves(i, scripts.v[k])}
     ELSE {}

\* C25: every result that the finished validation script recorded has one
\* ScriptNotFound error per frontend_scripts element that names no file under
\* the plugin's assets directory; and every element of the frontend_scripts
\* of an entry of the written index names a file that exists under the assets
\* directory of that entry's plugin.
C25_FrontendScriptsResolve ==
  /\ ScriptFinished =>
       \A i \in PluginDirs :
         ManifestParses(i) =>
           \A k \in OutcomesFor(i) :
             Count(outcomes[k].errors, "ScriptNotFound") = Cardinality(MissingScripts(i))
  /\ IndexWritten =>
       \A i \in PluginDirs : EntriesFor(i) # {} => MissingScripts(i) = {}

\* ------------------------------------------------------------- Full rewrite
\* The entries of plugins.json as it is on disk, whichever run wrote it.
ArtifactPlugins == artifact.index.plugins

\* C26: after every build run, over a plugins directory that gained and lost
\* plugins since the earlier runs, the plugins.json on disk holds only
\* entries of plugins that this run found valid, and counts them: no entry
\* of a removed plugin or of an earlier run is left.
C26_FullRewrite ==
  (BuildFinished /\ artifact.exists) =>
    /\ \A k \in 1..Len(ArtifactPlugins) :
         \E i \in PluginDirs : BuildAccepts(i) /\ ArtifactPlugins[k] = EntryOf(i)
    /\ artifact.index.plugin_count = Cardinality({i \in PluginDirs : BuildAccepts(i)})

\* ---------------------------------------------- Data-model bounds of the index
\* The value is a string of lo to hi characters.
StringOfLength(x, lo, hi) == x.t = "string" /\ Len(x.v) >= lo /\ Len(x.v) <= hi

\* C27: every entry of the written index has an id of 2 to 50 characters.
C27_IndexIdLengthBounded ==
  IndexWritten =>
    \A k \in 1..Len(IndexPlugins) : StringOfLength(IndexPlugins[k].id, 2, 50)

\* C28: every entry of the written index has a description of 10 to 500
\* characters and tags that is a sequence of at most 10 elements.
C28_IndexDescriptionAndTagsBounded ==
  IndexWritten =>
    \A k \in 1..Len(IndexPlugins) :
      /\ StringOfLength(IndexPlugins[k].description, 10, 500)
      /\ IndexPlugins[k].tags.t = "array"
      /\ Len(IndexPlugins[k].tags.v) <= 10

\* ------------------------------------------------------- Ids of the index
\* The id of the k-th entry of the written index, as text.
IdOf(k) == IndexPlugins[k].id

\* The directories that the k-th entry of the index was built from.
CameFrom(k) == {i \in PluginDirs : IndexPlugins[k] = EntryOf(i)}

\* C29: in every written index each entry's id is a string that equals the
\* name of the directory the entry came from and matches ^[a-z0-9-]+$, and
\* no two entries have the same id.
C29_IndexIdsUniqueAndWellFormed ==
  IndexWritten =>
    /\ \A k \in 1..Len(IndexPlugins) :
         /\ IdOf(k).t = "string"
         /\ MatchesIdFormat(IdOf(k).v)
         /\ CameFrom(k) # {}
         /\ \A i \in CameFrom(k) : IdOf(k).v = entries[i].name
    /\ \A k, l \in 1..Len(IndexPlugins) : k # l => IdOf(k) # IdOf(l)

\* A written index with two entries, over a directory that also holds a
\* plugin whose manifest gives the id of another directory.
C29_Witness ==
  /\ IndexWritten
  /\ Len(IndexPlugins) >= 2
  /\ \E i, j \in PluginDirs :
       /\ i # j
       /\ EntriesFor(j) # {}
       /\ Field(ManifestOf(i), "id") = Str(entries[j].name)

\* ------------------------------------------------ Script and build compared
\* validatePlugin of the validation script returns for directory i, with no error.
ScriptReturnsNoErrors(i) ==
  LET r == validatePlugin(entries[i], entries[i].name)
  IN ~r.threw /\ r.errors = <<>>

====
